---- MODULE Spec2Model ----
(***************************************************************************)
(* Model of the APTE configuration loader (src/apte_config.py) and of the  *)
(* singleton persistence client (src/firebase_client.py).                  *)
(*                                                                         *)
(* Spec       : construction of APTEConfig() field by field, in            *)
(*              declaration order, as pydantic's BaseSettings does it,     *)
(*              followed by attribute assignments on the loaded instance.  *)
(* ClientSpec : FirebaseClient() called from several threads, one          *)
(*              statement of __new__ / __init__ at a time.                 *)
(* SeqSpec    : the same calls made by one caller at a time.               *)
(* WriteSpec  : write() with its retry policy on a Ready client.           *)
(*                                                                         *)
(* Fractions are kept in thousandths (0.1 is 100, 1.0 is 1000).            *)
(* An optional value is a sequence: <<>> is None / unset, <<v>> is v.      *)
(* The fields modelled are the ones a property below reads; every other    *)
(* field of APTEConfig is validated on its own by a rule of the same kind. *)
(* The environment is read as each field is validated; it does not change  *)
(* during the load, so this is the load of one fixed environment.          *)
(*                                                                         *)
(* src/firebase_client.py ends inside the try block of __init__ (line 45). *)
(* What follows it is modelled from the written specification: the flag    *)
(* set on success (MarkInitialized), the error reported to the caller      *)
(* (RaiseInitError), and write() with its retries (Write...).              *)
(***************************************************************************)
EXTENDS Integers, Sequences, FiniteSets, TLC

VARIABLES
    env,        \* the environment values read so far: field -> <<>> | <<raw>>
    values,     \* pydantic's `values`: the fields validated so far, by name
    errors,     \* the fields whose validation recorded an error
    log,        \* the records logger.error has emitted, in order
    exc,        \* the exception APTEConfig() raised, "none" while there is none
    idx,        \* position in Fields of the next field to validate
    config,     \* the module-level instance `config` (EmptyMap until bound)
    returned,   \* what `config` held when APTEConfig() returned
    assigns,    \* attribute assignments made on `config` since then
    instance,   \* FirebaseClient._instance: 0 is None, else the object's id
    initialized,\* the objects whose _initialized reads True
    apps,       \* firebase_admin._apps holds the default app
    db,         \* the objects whose self.db is bound to the Firestore client
    pc,         \* each caller's position inside FirebaseClient()
    self,       \* each caller's `self`: the object __new__ returned to it
    pending,    \* the exception in flight in each caller, "none" if none
    outcome,    \* how each caller's latest call ended
    calls,      \* calls of FirebaseClient() each caller has begun
    certValid,  \* the credentials file parses as a service-account certificate
    clientOk,   \* firestore.client() can build a client for the project
    created,    \* objects allocated by super().__new__
    credLoads,  \* executions of credentials.Certificate
    appInits,   \* registrations of the default app by initialize_app
    failures,   \* calls that ended with an initialization error
    completed,  \* calls that have ended
    early,      \* callers whose current call began before any call had ended
    earlyLoads, \* executions of credentials.Certificate by such callers
    wpc,        \* position inside write(): idle, try, wait, ok, error
    wdoc,       \* the document id the caller passed, None when omitted
    retries,    \* retries made by the write under way
    faults,     \* the backend faults met by the write under way, in order
    wresult,    \* the document id the latest write returned, None if none
    store,      \* the ids of the documents the backend holds
    writes      \* calls of write() begun

cfgVars == <<env, values, errors, log, exc, idx, config, returned, assigns>>

clientVars ==
    <<instance, initialized, apps, db, pc, self, pending, outcome, calls,
      certValid, clientOk, created, credLoads, appInits, failures, completed,
      early, earlyLoads>>

writeVars == <<wpc, wdoc, retries, faults, wresult, store, writes>>

vars == <<cfgVars, clientVars, writeVars>>

----------------------------------------------------------------------------
(* Bounds *)

\* environment variables set for fields that have a default
MaxOverrides == 2

\* attribute assignments made after the load
MaxAssign == 1

\* concurrent callers of FirebaseClient()
NumCallers == 2

\* calls of FirebaseClient() by one caller
MaxCalls == 2

\* calls of write()
MaxWrites == 2

----------------------------------------------------------------------------
(* APTEConfig: the declarations *)

None == <<>>

Some(v) == <<v>>

EmptyMap == [f \in {} |-> None]

PAPER == "paper"

LIVE == "live"

BACKTEST == "backtest"

\* declaration order of the class body
Fields ==
    << "EXCHANGE_API_KEY", "EXCHANGE_API_SECRET", "TRADING_MODE",
       "MAX_POSITION_SIZE", "MAX_DAILY_LOSS", "FIREBASE_CREDENTIALS_PATH",
       "PREDICTION_CONFIDENCE_THRESHOLD", "DATA_SYMBOLS", "LOOKBACK_PERIODS",
       "MAX_RETRIES", "RETRY_DELAY_SECONDS" >>

FieldSet == {Fields[i] : i \in 1..Len(Fields)}

\* Field(...): fields declared with `...` have no default
Required == {"FIREBASE_CREDENTIALS_PATH"}

DefaultSymbols == <<"BTC/USDT", "ETH/USDT", "SOL/USDT">>

Default(f) ==
    CASE f = "EXCHANGE_API_KEY" -> None
      [] f = "EXCHANGE_API_SECRET" -> None
      [] f = "TRADING_MODE" -> PAPER
      [] f = "MAX_POSITION_SIZE" -> 100
      [] f = "MAX_DAILY_LOSS" -> 20
      [] f = "PREDICTION_CONFIDENCE_THRESHOLD" -> 650
      [] f = "DATA_SYMBOLS" -> DefaultSymbols
      [] f = "LOOKBACK_PERIODS" -> 100
      [] f = "MAX_RETRIES" -> 3
      [] f = "RETRY_DELAY_SECONDS" -> 5

\* the files present on the local filesystem
ExistingFiles == {"creds.json"}

\* what the environment may hold for a field
Inputs(f) ==
    CASE f = "EXCHANGE_API_KEY" -> {"", "key"}
      [] f = "EXCHANGE_API_SECRET" -> {"", "secret"}
      [] f = "TRADING_MODE" -> {LIVE, BACKTEST}
      [] f = "MAX_POSITION_SIZE" -> {-1, 0, 1000, 1500}
      [] f = "MAX_DAILY_LOSS" -> {-1, 0, 100, 101}
      [] f = "FIREBASE_CREDENTIALS_PATH" -> {"creds.json", "missing.json"}
      [] f = "PREDICTION_CONFIDENCE_THRESHOLD" -> {499, 500, 1000, 1001}
      [] f = "DATA_SYMBOLS" -> {<<>>, <<"ETH/USDT", "BTC/USDT", "ETH/USDT">>}
      [] f = "LOOKBACK_PERIODS" -> {-1, 0, 1}
      [] f = "MAX_RETRIES" -> {-1, 0}
      [] f = "RETRY_DELAY_SECONDS" -> {-1, 0}

CredentialFields == {"EXCHANGE_API_KEY", "EXCHANGE_API_SECRET"}

\* the typed value of a field: its default when the environment leaves it
\* unset, else the environment's value (an Optional[str] holds the string)
Value(f, e) ==
    IF e = None THEN Default(f)
    ELSE IF f \in CredentialFields THEN Some(e[1]) ELSE e[1]

\* the exclusive upper bound an off-by-one in le= would give
RangeOk_Strict(f, v) ==
    CASE f = "MAX_POSITION_SIZE" -> v >= 0 /\ v < 1000
      [] f = "MAX_DAILY_LOSS" -> v >= 0 /\ v < 100
      [] f = "PREDICTION_CONFIDENCE_THRESHOLD" -> v >= 500 /\ v < 1000
      [] OTHER -> TRUE

\* the ge= / le= / gt= constraints of Field(...)
RangeOk(f, v) ==
    CASE f = "MAX_POSITION_SIZE" -> v >= 0 /\ v <= 1000
      [] f = "MAX_DAILY_LOSS" -> v >= 0 /\ v <= 100
      [] f = "PREDICTION_CONFIDENCE_THRESHOLD" -> v >= 500 /\ v <= 1000
      [] OTHER -> TRUE

\* Python's `not v` for an Optional[str]
Falsy(v) == v = None \/ v = Some("")

\* values.get(name) == expected
GetEquals(vals, name, expected) ==
    name \in DOMAIN vals /\ vals[name] = expected

\* a validator that returns v without looking at the filesystem
validate_firebase_creds_Unchecked(v) == FALSE

\* @validator("FIREBASE_CREDENTIALS_PATH"): TRUE when it raises
validate_firebase_creds(v) == v \notin ExistingFiles

\* @validator("EXCHANGE_API_KEY", "EXCHANGE_API_SECRET", always=True):
\* TRUE when it raises
validate_exchange_credentials(v, vals) ==
    GetEquals(vals, "TRADING_MODE", LIVE) /\ Falsy(v)

FileNotFoundRecord(v) == <<"ERROR", "Firebase credentials file not found", v>>

LiveCredentialsRecord == <<"ERROR", "Live trading requires exchange API credentials">>

----------------------------------------------------------------------------
(* APTEConfig(): BaseSettings validates the fields one at a time *)

Put(m, k, v) == [x \in DOMAIN m \cup {k} |-> IF x = k THEN v ELSE m[x]]

Overrides(e) == Cardinality({f \in DOMAIN e : f \notin Required /\ e[f] # None})

CfgInit ==
    /\ env = EmptyMap
    /\ values = EmptyMap
    /\ errors = {}
    /\ log = <<>>
    /\ exc = "none"
    /\ idx = 1
    /\ config = EmptyMap
    /\ returned = EmptyMap
    /\ assigns = 0

\* a required field the environment does not set: "field required"
ValidateMissing ==
    /\ exc = "none" /\ idx <= Len(Fields)
    /\ Fields[idx] \in Required
    /\ env' = Put(env, Fields[idx], None)
    /\ errors' = errors \cup {Fields[idx]}
    /\ idx' = idx + 1
    /\ UNCHANGED <<values, log, exc, config, returned, assigns>>
    /\ UNCHANGED <<clientVars, writeVars>>

\* the credentials path: the validator's FileNotFoundError is no ValueError,
\* so it leaves APTEConfig() at once
ValidatePath ==
    /\ exc = "none" /\ idx <= Len(Fields)
    /\ Fields[idx] = "FIREBASE_CREDENTIALS_PATH"
    /\ \E v \in Inputs(Fields[idx]) :
        /\ env' = Put(env, Fields[idx], Some(v))
        /\ IF validate_firebase_creds(v)
             THEN /\ log' = Append(log, FileNotFoundRecord(v))
                  /\ exc' = "FileNotFoundError"
                  /\ UNCHANGED <<values, idx>>
             ELSE /\ values' = Put(values, Fields[idx], v)
                  /\ idx' = idx + 1
                  /\ UNCHANGED <<log, exc>>
    /\ UNCHANGED <<errors, config, returned, assigns>>
    /\ UNCHANGED <<clientVars, writeVars>>

\* the two credential fields: the validator runs on None too (always=True)
\* and sees the fields validated before this one
ValidateCredential ==
    /\ exc = "none" /\ idx <= Len(Fields)
    /\ Fields[idx] \in CredentialFields
    /\ \E raw \in {None} \cup {Some(x) : x \in Inputs(Fields[idx])} :
        /\ raw # None => Overrides(env) < MaxOverrides
        /\ env' = Put(env, Fields[idx], raw)
        /\ LET v == Value(Fields[idx], raw)
           IN  IF validate_exchange_credentials(v, values)
                 THEN /\ log' = Append(log, LiveCredentialsRecord)
                      /\ errors' = errors \cup {Fields[idx]}
                      /\ UNCHANGED values
                 ELSE /\ values' = Put(values, Fields[idx], v)
                      /\ UNCHANGED <<log, errors>>
    /\ idx' = idx + 1
    /\ UNCHANGED <<exc, config, returned, assigns>>
    /\ UNCHANGED <<clientVars, writeVars>>

\* every other field: the default when unset, then the declared constraints
ValidatePlain ==
    /\ exc = "none" /\ idx <= Len(Fields)
    /\ Fields[idx] \notin CredentialFields \cup Required
    /\ \E raw \in {None} \cup {Some(x) : x \in Inputs(Fields[idx])} :
        /\ raw # None => Overrides(env) < MaxOverrides
        /\ env' = Put(env, Fields[idx], raw)
        /\ LET v == Value(Fields[idx], raw)
           IN  IF RangeOk(Fields[idx], v)
                 THEN /\ values' = Put(values, Fields[idx], v)
                      /\ UNCHANGED errors
                 ELSE /\ errors' = errors \cup {Fields[idx]}
                      /\ UNCHANGED values
    /\ idx' = idx + 1
    /\ UNCHANGED <<log, exc, config, returned, assigns>>
    /\ UNCHANGED <<clientVars, writeVars>>

\* all fields seen: ValidationError when an error was recorded, else the
\* instance is bound to the module-level name `config`
Finish ==
    /\ exc = "none" /\ idx = Len(Fields) + 1
    /\ config = EmptyMap
    /\ IF errors # {}
         THEN /\ exc' = "ValidationError"
              /\ UNCHANGED <<config, returned>>
         ELSE /\ config' = values
              /\ returned' = values
              /\ UNCHANGED exc
    /\ UNCHANGED <<env, values, errors, log, idx, assigns>>
    /\ UNCHANGED <<clientVars, writeVars>>

\* config.<name> = v on the loaded instance: class Config leaves
\* allow_mutation and validate_assignment at pydantic's defaults, so an
\* existing field takes the value, unvalidated
SetAttr ==
    /\ config # EmptyMap
    /\ assigns < MaxAssign
    /\ \E f \in FieldSet \ Required : \E x \in Inputs(f) :
        config' = [config EXCEPT ![f] = Value(f, Some(x))]
    /\ assigns' = assigns + 1
    /\ UNCHANGED <<env, values, errors, log, exc, idx, returned>>
    /\ UNCHANGED <<clientVars, writeVars>>

CfgNext ==
    \/ ValidateMissing
    \/ ValidatePath
    \/ ValidateCredential
    \/ ValidatePlain
    \/ Finish
    \/ SetAttr

----------------------------------------------------------------------------
(* FirebaseClient: the singleton accessor *)

Callers == 1..NumCallers

\* the statements of the try block of __init__
TryBlock == {"apps", "cert", "init_app", "client"}

\* those of them that build the connection
InitSteps == {"cert", "init_app", "client"}

\* no call of FirebaseClient() has been made
ClientIdle ==
    /\ instance = 0
    /\ initialized = {}
    /\ apps = FALSE
    /\ db = {}
    /\ pc = [c \in Callers |-> "idle"]
    /\ self = [c \in Callers |-> 0]
    /\ pending = [c \in Callers |-> "none"]
    /\ outcome = [c \in Callers |-> "none"]
    /\ calls = [c \in Callers |-> 0]
    /\ created = 0
    /\ credLoads = 0
    /\ appInits = 0
    /\ failures = 0
    /\ completed = 0
    /\ early = {}
    /\ earlyLoads = 0

\* the snapshot `from apte_config import config` hands the client: the
\* defaults, with the credentials path set to an existing file
LoadedEnv ==
    [f \in FieldSet |-> IF f \in Required THEN Some("creds.json") ELSE None]

LoadedValues ==
    [f \in FieldSet |-> IF f \in Required THEN "creds.json" ELSE Default(f)]

ConfigLoaded ==
    /\ env = LoadedEnv
    /\ values = LoadedValues
    /\ errors = {}
    /\ log = <<>>
    /\ exc = "none"
    /\ idx = Len(Fields) + 1
    /\ config = LoadedValues
    /\ returned = LoadedValues
    /\ assigns = 0

\* an always-allocating __new__, as if the `is None` test were dropped
NewCheck_NoGuard(c) ==
    /\ pc[c] = "new"
    /\ pc' = [pc EXCEPT ![c] = "alloc"]
    /\ UNCHANGED <<instance, initialized, apps, db, self, pending, outcome,
                   calls, certValid, clientOk, created, credLoads, appInits,
                   failures, completed, early, earlyLoads>>
    /\ UNCHANGED <<cfgVars, writeVars>>

\* a caller evaluates FirebaseClient()
Call(c) ==
    /\ pc[c] = "idle"
    /\ calls[c] < MaxCalls
    /\ calls' = [calls EXCEPT ![c] = @ + 1]
    /\ pc' = [pc EXCEPT ![c] = "new"]
    /\ self' = [self EXCEPT ![c] = 0]
    /\ outcome' = [outcome EXCEPT ![c] = "none"]
    /\ early' = IF completed = 0 THEN early \cup {c} ELSE early \ {c}
    /\ UNCHANGED <<instance, initialized, apps, db, pending, certValid,
                   clientOk, created, credLoads, appInits, failures,
                   completed, earlyLoads>>
    /\ UNCHANGED <<cfgVars, writeVars>>

\* __new__: if cls._instance is None
NewCheck(c) ==
    /\ pc[c] = "new"
    /\ pc' = [pc EXCEPT ![c] = IF instance = 0 THEN "alloc" ELSE "new_ret"]
    /\ UNCHANGED <<instance, initialized, apps, db, self, pending, outcome,
                   calls, certValid, clientOk, created, credLoads, appInits,
                   failures, completed, early, earlyLoads>>
    /\ UNCHANGED <<cfgVars, writeVars>>

\* __new__: cls._instance = super().__new__(cls)
NewAlloc(c) ==
    /\ pc[c] = "alloc"
    /\ created' = created + 1
    /\ instance' = created + 1
    /\ pc' = [pc EXCEPT ![c] = "new_ret"]
    /\ UNCHANGED <<initialized, apps, db, self, pending, outcome, calls,
                   certValid, clientOk, credLoads, appInits, failures,
                   completed, early, earlyLoads>>
    /\ UNCHANGED <<cfgVars, writeVars>>

\* __new__: return cls._instance, on which __init__ is then called
NewReturn(c) ==
    /\ pc[c] = "new_ret"
    /\ self' = [self EXCEPT ![c] = instance]
    /\ pc' = [pc EXCEPT ![c] = "init"]
    /\ UNCHANGED <<instance, initialized, apps, db, pending, outcome, calls,
                   certValid, clientOk, created, credLoads, appInits,
                   failures, completed, early, earlyLoads>>
    /\ UNCHANGED <<cfgVars, writeVars>>

\* __init__: if not self._initialized; otherwise the call returns the object
InitCheck(c) ==
    /\ pc[c] = "init"
    /\ IF self[c] \notin initialized
         THEN /\ pc' = [pc EXCEPT ![c] = "apps"]
              /\ UNCHANGED <<outcome, completed>>
         ELSE /\ pc' = [pc EXCEPT ![c] = "idle"]
              /\ outcome' = [outcome EXCEPT ![c] = "Ready"]
              /\ completed' = completed + 1
    /\ UNCHANGED <<instance, initialized, apps, db, self, pending, calls,
                   certValid, clientOk, created, credLoads, appInits,
                   failures, early, earlyLoads>>
    /\ UNCHANGED <<cfgVars, writeVars>>

\* __init__: if not firebase_admin._apps
AppsCheck(c) ==
    /\ pc[c] = "apps"
    /\ pc' = [pc EXCEPT ![c] = IF apps THEN "client" ELSE "cert"]
    /\ UNCHANGED <<instance, initialized, apps, db, self, pending, outcome,
                   calls, certValid, clientOk, created, credLoads, appInits,
                   failures, completed, early, earlyLoads>>
    /\ UNCHANGED <<cfgVars, writeVars>>

\* __init__: cred = credentials.Certificate(config.FIREBASE_CREDENTIALS_PATH)
Certificate(c) ==
    /\ pc[c] = "cert"
    /\ credLoads' = credLoads + 1
    /\ earlyLoads' = IF c \in early THEN earlyLoads + 1 ELSE earlyLoads
    /\ IF certValid /\ config["FIREBASE_CREDENTIALS_PATH"] \in ExistingFiles
         THEN /\ pc' = [pc EXCEPT ![c] = "init_app"]
              /\ UNCHANGED pending
         ELSE /\ pc' = [pc EXCEPT ![c] = "except"]
              /\ pending' = [pending EXCEPT ![c] = "InvalidCertificate"]
    /\ UNCHANGED <<instance, initialized, apps, db, self, outcome, calls,
                   certValid, clientOk, created, appInits, failures,
                   completed, early>>
    /\ UNCHANGED <<cfgVars, writeVars>>

\* __init__: firebase_admin.initialize_app(cred, {...}), which raises
\* ValueError when the default app is registered already
InitializeApp(c) ==
    /\ pc[c] = "init_app"
    /\ IF apps
         THEN /\ pc' = [pc EXCEPT ![c] = "except"]
              /\ pending' = [pending EXCEPT ![c] = "AppAlreadyExists"]
              /\ UNCHANGED <<apps, appInits>>
         ELSE /\ apps' = TRUE
              /\ appInits' = appInits + 1
              /\ pc' = [pc EXCEPT ![c] = "client"]
              /\ UNCHANGED pending
    /\ UNCHANGED <<instance, initialized, db, self, outcome, calls,
                   certValid, clientOk, created, credLoads, failures,
                   completed, early, earlyLoads>>
    /\ UNCHANGED <<cfgVars, writeVars>>

\* __init__: self.db = firestore.client()
FirestoreClient(c) ==
    /\ pc[c] = "client"
    /\ IF clientOk
         THEN /\ db' = db \cup {self[c]}
              /\ pc' = [pc EXCEPT ![c] = "mark"]
              /\ UNCHANGED pending
         ELSE /\ pc' = [pc EXCEPT ![c] = "except"]
              /\ pending' = [pending EXCEPT ![c] = "ClientUnavailable"]
              /\ UNCHANGED db
    /\ UNCHANGED <<instance, initialized, apps, self, outcome, calls,
                   certValid, clientOk, created, credLoads, appInits,
                   failures, completed, early, earlyLoads>>
    /\ UNCHANGED <<cfgVars, writeVars>>

\* the end of the try block: the initialization flag is set and the call
\* returns the object
MarkInitialized(c) ==
    /\ pc[c] = "mark"
    /\ initialized' = initialized \cup {self[c]}
    /\ pc' = [pc EXCEPT ![c] = "idle"]
    /\ outcome' = [outcome EXCEPT ![c] = "Ready"]
    /\ completed' = completed + 1
    /\ UNCHANGED <<instance, apps, db, self, pending, calls, certValid,
                   clientOk, created, credLoads, appInits, failures, early,
                   earlyLoads>>
    /\ UNCHANGED <<cfgVars, writeVars>>

\* the handler of the try block: the failure is reported to the caller
RaiseInitError(c) ==
    /\ pc[c] = "except"
    /\ outcome' = [outcome EXCEPT ![c] = pending[c]]
    /\ pending' = [pending EXCEPT ![c] = "none"]
    /\ pc' = [pc EXCEPT ![c] = "idle"]
    /\ failures' = failures + 1
    /\ completed' = completed + 1
    /\ UNCHANGED <<instance, initialized, apps, db, self, calls, certValid,
                   clientOk, created, credLoads, appInits, early, earlyLoads>>
    /\ UNCHANGED <<cfgVars, writeVars>>

Step(c) ==
    \/ NewCheck(c)
    \/ NewAlloc(c)
    \/ NewReturn(c)
    \/ InitCheck(c)
    \/ AppsCheck(c)
    \/ Certificate(c)
    \/ InitializeApp(c)
    \/ FirestoreClient(c)
    \/ MarkInitialized(c)
    \/ RaiseInitError(c)

\* callers on threads: any caller may begin or take its next step
ClientNext == \E c \in Callers : Call(c) \/ Step(c)

\* callers one after the other: a call begins when no call is under way
SeqNext ==
    \E c \in Callers :
        \/ (\A d \in Callers : pc[d] = "idle") /\ Call(c)
        \/ Step(c)


----------------------------------------------------------------------------
(* write(collection, document_id_or_none, fields) on a Ready client *)

Transient == "transient"

Permanent == "permanent"

\* the id the store assigns to the n-th document written without one
AutoId(n) == <<"auto", n>>

GivenId == <<"doc", 1>>

WriteIdle ==
    /\ wpc = "idle"
    /\ wdoc = None
    /\ retries = 0
    /\ faults = <<>>
    /\ wresult = None
    /\ store = {}
    /\ writes = 0

\* the connection is Ready: the object exists, holds a client, and is flagged
Ready == instance # 0 /\ instance \in initialized /\ instance \in db

\* the retry budget the client reads from the configuration
RetryBudget == config["MAX_RETRIES"]

\* a caller begins a write, with or without a document id
WriteCall ==
    /\ wpc = "idle"
    /\ Ready
    /\ writes < MaxWrites
    /\ writes' = writes + 1
    /\ wdoc' \in {None, Some(GivenId)}
    /\ wpc' = "try"
    /\ retries' = 0
    /\ faults' = <<>>
    /\ wresult' = None
    /\ UNCHANGED store
    /\ UNCHANGED <<cfgVars, clientVars>>

\* one attempt: the backend stores the document and the call returns its id
WriteAttemptOk ==
    /\ wpc = "try"
    /\ LET id == IF wdoc = None THEN AutoId(writes) ELSE wdoc[1]
       IN  /\ store' = store \cup {id}
           /\ wresult' = Some(id)
    /\ wpc' = "ok"
    /\ UNCHANGED <<wdoc, retries, faults, writes>>
    /\ UNCHANGED <<cfgVars, clientVars>>

\* a retry that never looks at the budget
WriteAttemptTransient_NoBudget ==
    /\ wpc = "try"
    /\ retries <= 3
    /\ faults' = Append(faults, Transient)
    /\ wpc' = "wait"
    /\ UNCHANGED <<wdoc, retries, wresult, store, writes>>
    /\ UNCHANGED <<cfgVars, clientVars>>

\* one attempt meets a transient fault (network, rate limit): retried while
\* the budget lasts, else PersistenceOperationError
WriteAttemptTransient ==
    /\ wpc = "try"
    /\ faults' = Append(faults, Transient)
    /\ wpc' = IF retries < RetryBudget THEN "wait" ELSE "error"
    /\ UNCHANGED <<wdoc, retries, wresult, store, writes>>
    /\ UNCHANGED <<cfgVars, clientVars>>

\* one attempt meets a non-transient fault (permission denied, invalid
\* argument): PersistenceOperationError at once
WriteAttemptPermanent ==
    /\ wpc = "try"
    /\ faults' = Append(faults, Permanent)
    /\ wpc' = "error"
    /\ UNCHANGED <<wdoc, retries, wresult, store, writes>>
    /\ UNCHANGED <<cfgVars, clientVars>>

\* the fixed delay RETRY_DELAY_SECONDS has passed: the next attempt
WriteRetry ==
    /\ wpc = "wait"
    /\ retries' = retries + 1
    /\ wpc' = "try"
    /\ UNCHANGED <<wdoc, faults, wresult, store, writes>>
    /\ UNCHANGED <<cfgVars, clientVars>>

\* the call has ended; the caller may write again
WriteEnd ==
    /\ wpc \in {"ok", "error"}
    /\ wpc' = "idle"
    /\ UNCHANGED <<wdoc, retries, faults, wresult, store, writes>>
    /\ UNCHANGED <<cfgVars, clientVars>>

WriteNext ==
    \/ WriteCall
    \/ WriteAttemptOk
    \/ WriteAttemptTransient
    \/ WriteAttemptPermanent
    \/ WriteRetry
    \/ WriteEnd

\* a loaded snapshot with MAX_RETRIES as the environment gave it
LoadedWith(r) ==
    /\ env = [LoadedEnv EXCEPT !["MAX_RETRIES"] = r]
    /\ values = [LoadedValues EXCEPT !["MAX_RETRIES"] =
                    IF r = None THEN Default("MAX_RETRIES") ELSE r[1]]
    /\ errors = {}
    /\ log = <<>>
    /\ exc = "none"
    /\ idx = Len(Fields) + 1
    /\ config = values
    /\ returned = values
    /\ assigns = 0

\* the first caller's FirebaseClient() has returned a Ready client
ClientReady ==
    /\ instance = 1
    /\ initialized = {1}
    /\ apps = TRUE
    /\ db = {1}
    /\ pc = [c \in Callers |-> "idle"]
    /\ self = [c \in Callers |-> IF c = 1 THEN 1 ELSE 0]
    /\ pending = [c \in Callers |-> "none"]
    /\ outcome = [c \in Callers |-> IF c = 1 THEN "Ready" ELSE "none"]
    /\ calls = [c \in Callers |-> IF c = 1 THEN 1 ELSE 0]
    /\ certValid = TRUE
    /\ clientOk = TRUE
    /\ created = 1
    /\ credLoads = 1
    /\ appInits = 1
    /\ failures = 0
    /\ completed = 1
    /\ early = {1}
    /\ earlyLoads = 1

WriteInit ==
    /\ \E r \in {None} \cup {Some(x) : x \in Inputs("MAX_RETRIES")} :
          LoadedWith(r)
    /\ ClientReady
    /\ WriteIdle

----------------------------------------------------------------------------
(* Specifications *)

\* the load of the configuration, before any client exists
Init ==
    /\ CfgInit
    /\ ClientIdle
    /\ certValid = TRUE
    /\ clientOk = TRUE
    /\ WriteIdle

Next == CfgNext

Spec == Init /\ [][Next]_vars

\* the configuration is loaded (the client module imports it), no call of
\* FirebaseClient() has been made, and the backend is as the process finds it
ClientInit ==
    /\ ConfigLoaded
    /\ ClientIdle
    /\ certValid \in BOOLEAN
    /\ clientOk \in BOOLEAN
    /\ wpc = "idle"
    /\ wdoc = None
    /\ retries = 0
    /\ faults = <<>>
    /\ wresult = None
    /\ store = {}
    /\ writes = 0

\* the accessor called from several threads
ClientSpec == ClientInit /\ [][ClientNext]_vars

\* the accessor called by one caller at a time
SeqSpec == ClientInit /\ [][SeqNext]_vars

\* writes on a Ready client
WriteSpec == WriteInit /\ [][WriteNext]_vars

----------------------------------------------------------------------------
(* Properties of the configuration load (Spec) *)

\* every field has been validated
AllValidated == idx = Len(Fields) + 1

\* APTEConfig() returned an instance
Loaded == returned # EmptyMap

\* the environment's value of a field that has been read
EnvValue(f) == Value(f, env[f])

\* C1: load fails on the credential rule exactly when TRADING_MODE is live
\* and EXCHANGE_API_KEY or EXCHANGE_API_SECRET is absent or empty; in paper
\* or backtest mode absent credentials never fail the load, and the snapshot
\* then carries EXCHANGE_API_KEY = None.
C1_LiveRequiresCredentials ==
    AllValidated =>
        LET live == EnvValue("TRADING_MODE") = LIVE
            lacking == \E f \in CredentialFields : Falsy(EnvValue(f))
        IN  /\ (errors \cap CredentialFields # {}) => (live /\ lacking)
            /\ Loaded => ~(live /\ lacking)
            /\ (~live /\ env["EXCHANGE_API_KEY"] = None /\ Loaded)
                   => returned["EXCHANGE_API_KEY"] = None

\* the declared closed ranges, in thousandths
C5_Fields ==
    {"MAX_POSITION_SIZE", "MAX_DAILY_LOSS", "PREDICTION_CONFIDENCE_THRESHOLD"}

C5_Low(f) == IF f = "PREDICTION_CONFIDENCE_THRESHOLD" THEN 500 ELSE 0

C5_High(f) == IF f = "MAX_DAILY_LOSS" THEN 100 ELSE 1000

C5_Inside(f, v) == C5_Low(f) <= v /\ v <= C5_High(f)

\* C5: MAX_POSITION_SIZE in [0,1], MAX_DAILY_LOSS in [0,0.1] and
\* PREDICTION_CONFIDENCE_THRESHOLD in [0.5,1.0] pass validation exactly when
\* the value lies inside the range, endpoints included; a value outside it
\* makes load fail, and the value stored is the input, never a clamped one.
C5_RangeEnforced ==
    \A f \in C5_Fields \cap DOMAIN env :
        /\ f \in errors <=> ~C5_Inside(f, EnvValue(f))
        /\ f \notin errors => values[f] = EnvValue(f)
        /\ ~C5_Inside(f, EnvValue(f)) => ~Loaded
        /\ (AllValidated /\ exc # "none") => ~Loaded
        /\ Loaded => returned[f] = EnvValue(f)

\* MAX_POSITION_SIZE=1.5 has failed the load, next to a threshold on its
\* lower endpoint that was accepted
C5_Witness ==
    /\ exc = "ValidationError"
    /\ env["MAX_POSITION_SIZE"] = Some(1500)
    /\ "MAX_POSITION_SIZE" \in errors
    /\ env["PREDICTION_CONFIDENCE_THRESHOLD"] = Some(500)
    /\ values["PREDICTION_CONFIDENCE_THRESHOLD"] = 500

\* C6: after a successful load every field of the snapshot keeps the value
\* it had when load returned; an assignment to a field is rejected and
\* leaves the snapshot unchanged.
C6_SnapshotImmutable == Loaded => config = returned

\* C7: every snapshot load returns has a non-empty DATA_SYMBOLS; an empty
\* list in the input fails the load; a non-empty list is stored with its
\* order and duplicates kept.
C7_SymbolsNonEmpty ==
    Loaded =>
        /\ Len(returned["DATA_SYMBOLS"]) > 0
        /\ returned["DATA_SYMBOLS"] = EnvValue("DATA_SYMBOLS")

\* C9: a FIREBASE_CREDENTIALS_PATH naming no existing file fails the load
\* with no snapshot, partial or whole, and the error record naming the file
\* is in the log when the failure is raised; an existing path passes the
\* validator and is stored unchanged.
C9_MissingCredentialFile ==
    LET f == "FIREBASE_CREDENTIALS_PATH"
    IN  (f \in DOMAIN env /\ env[f] # None) =>
            IF env[f][1] \notin ExistingFiles
              THEN /\ exc = "FileNotFoundError"
                   /\ config = EmptyMap /\ ~Loaded
                   /\ f \notin DOMAIN values
                   /\ log # <<>>
                   /\ log[Len(log)] = FileNotFoundRecord(env[f][1])
              ELSE /\ exc # "FileNotFoundError"
                   /\ f \notin errors
                   /\ values[f] = env[f][1]
                   /\ Loaded => returned[f] = env[f][1]

\* the load of an environment naming missing.json has raised
C9_Witness ==
    /\ exc = "FileNotFoundError"
    /\ env["FIREBASE_CREDENTIALS_PATH"] = Some("missing.json")
    /\ idx = 6

\* C10: LOOKBACK_PERIODS is positive and MAX_RETRIES and
\* RETRY_DELAY_SECONDS are non-negative in every snapshot: an input breaking
\* a sign constraint fails the load.
C10_SignConstraints ==
    Loaded =>
        /\ returned["LOOKBACK_PERIODS"] > 0
        /\ returned["MAX_RETRIES"] >= 0
        /\ returned["RETRY_DELAY_SECONDS"] >= 0

----------------------------------------------------------------------------
(* Properties of the accessor *)

\* C2: when callers invoke FirebaseClient() before any call has ended, one
\* initialization sequence runs (one object is created, one caller loads
\* the credentials) and all of them see the same outcome, under every
\* interleaving.
C2_SingleInitialization ==
    /\ created <= 1
    /\ earlyLoads <= 1
    /\ \A c, d \in early :
          (pc[c] = "idle" /\ pc[d] = "idle") => outcome[c] = outcome[d]

\* C3: once an initialization attempt has failed the client is Failed for
\* good: no later call runs an initialization step again (callers run one
\* at a time here, so a caller at a step of the try block after a failure
\* is a later call).
C3_FailedIsTerminal ==
    failures > 0 => \A c \in Callers : pc[c] \notin InitSteps

\* C4: with callers one at a time, every call returns the one object, and
\* once it is Ready no later call creates an object or runs the
\* initialization again; the default app is registered at most once.
C4_SingleInstance ==
    /\ created <= 1
    /\ appInits <= 1
    /\ \A c \in Callers : self[c] # 0 => self[c] = instance
    /\ \A c \in Callers :
          (pc[c] = "idle" /\ outcome[c] = "Ready") => (self[c] = instance /\ Ready)
    /\ initialized # {} =>
          \A c \in Callers : pc[c] \notin TryBlock \cup {"alloc", "except"}

\* two callers, one of them on its second call, hold the same Ready object
C4_Witness ==
    /\ \A c \in {1, 2} : pc[c] = "idle" /\ outcome[c] = "Ready"
    /\ calls[1] = 2
    /\ self[1] = self[2]
    /\ created = 1

----------------------------------------------------------------------------
(* Properties of write (WriteSpec) *)

AllTransient(fs) == \A i \in 1..Len(fs) : fs[i] = Transient

\* C8: a write on a Ready client is attempted again after each transient
\* fault, up to MAX_RETRIES times: it returns the document id when the
\* faults cease within the budget and ends in PersistenceOperationError when
\* they outlast it; a non-transient fault ends the call at its first
\* occurrence; the connection stays Ready.
C8_WriteRetry ==
    /\ Ready
    /\ retries > 0 => retries <= RetryBudget
    /\ wpc = "wait" => retries < RetryBudget
    /\ wpc \in {"try", "wait"} => AllTransient(faults)
    /\ wpc = "ok" =>
          /\ wresult # None /\ wresult[1] \in store
          /\ wdoc # None => wresult = wdoc
          /\ AllTransient(faults) /\ Len(faults) = retries
    /\ wpc = "error" =>
          /\ wresult = None
          /\ Len(faults) = retries + 1
          /\ AllTransient(SubSeq(faults, 1, retries))
          /\ faults[Len(faults)] = Transient => retries >= RetryBudget

\* a write has returned its id after two transient faults
C8_Witness ==
    /\ wpc = "ok"
    /\ faults = <<Transient, Transient>>
    /\ wresult = Some(GivenId)

====
